---- MODULE Spec2Model ----
(***************************************************************************)
(* Model of the wgpu triangle samples: main (hello-triangle/main.rs)       *)
(* driving Renderer::new and Renderer::render of the single-sample         *)
(* renderer (src/renderer.rs) or of the multisample renderer               *)
(* (hello-triangle-msaa/renderer.rs).  The winit event loop and the wgpu   *)
(* surface are the environment: their outcomes are nondeterministic.       *)
(* Both renderers expose only new and render, so the multisample binary    *)
(* is driven by the same closure as hello-triangle/main.rs.  One loop      *)
(* iteration delivers window events, MainEventsCleared, the redraw         *)
(* signals (one per window) and RedrawEventsCleared, after which a         *)
(* ControlFlow::Exit ends the process.                                     *)
(***************************************************************************)
EXTENDS Integers, Sequences, FiniteSets, TLC

\* ------------------------------------------------------------------ bounds
\* window widths and heights range over 1..MaxDim
MaxDim == 2

\* ------------------------------------------------------- program constants
\* const SAMPLE_COUNT: u32 = 4 of the multisample renderer
SAMPLE_COUNT == 4
\* multisample.count of the single-sample pipeline
SINGLE_SAMPLE_COUNT == 1
\* exit status of a Rust process whose main thread panicked (a failed unwrap)
PanicExitCode == 101
\* ControlFlow::Exit is ExitWithCode(0)
ExitCodeOfControlFlowExit == 0

Variants == {"single", "msaa"}
Dims == 1..MaxDim
Sizes == [width : Dims, height : Dims]
\* the formats an adapter may declare as the surface's default
Formats == {"Bgra8UnormSrgb", "Rgba8UnormSrgb"}

NoSize == [width |-> 0, height |-> 0]
NoConfig == [width |-> 0, height |-> 0, format |-> "None"]
NoPipeline == [format |-> "None", sample_count |-> 0]
NoTexture == [width |-> 0, height |-> 0, format |-> "None", sample_count |-> 0]
NoOutput == [acquired |-> FALSE, width |-> 0, height |-> 0, format |-> "None",
             sample_count |-> 0, presented |-> FALSE]
NoPass == [open |-> FALSE, color_attachments |-> 0,
           view |-> "None", resolve_target |-> "None",
           load |-> "None", store |-> FALSE, depth_stencil |-> "None",
           view_size |-> NoSize, resolve_size |-> NoSize,
           view_samples |-> 0, pipeline_set |-> FALSE, draws |-> <<>>]

\* the outcomes of Surface::get_current_texture
SurfaceErrors == {"Lost", "Outdated", "Timeout", "OutOfMemory"}
AcquireOutcomes == {"Ok"} \cup SurfaceErrors

VARIABLES
    variant,        \* which renderer.rs the binary was built with
    pc,             \* position of main
    window,         \* [created, size]: the winit window
    surface,        \* [created, config]: wgpu::Surface and its applied configuration
    adapter,        \* BOOLEAN: adapter obtained
    device,         \* BOOLEAN: device obtained (Renderer.device)
    queue,          \* BOOLEAN: queue obtained (Renderer.queue)
    surface_config, \* local surface_config of Renderer::new
    render_pipeline,\* Renderer.render_pipeline
    texture_view_for_multisampling, \* Renderer field of the msaa variant
    shaders,        \* BOOLEAN: both shader modules created
    control_flow,   \* *control_flow of the event loop closure
    phase,          \* event loop iteration: "events" or "redraw"
    redraw_requested, \* window.request_redraw() pending for the own window
    other_redraw,   \* a redraw signal for a foreign window id is pending
    last_event,     \* the event most recently handed to the closure
    exit_code,      \* -1 while the process runs
    rpc,            \* position inside Renderer::render / the RedrawRequested arm
    output,         \* local output: the acquired SurfaceTexture
    view,           \* BOOLEAN: local view exists
    encoder,        \* local encoder: "none", "open", "in_pass", "finished" (a
                    \* command buffer), "submitted" (moved into the queue)
    pass,           \* the render pass recorded by this call
    submits,        \* command buffers submitted by this call
    presents,       \* presents issued by this call
    result,         \* value returned by the last render call, "none" before
    trace,          \* the wgpu calls made by the current render call, in order
    renders,        \* render calls made for the event being handled
    pre,            \* the Renderer's fields when the current render call began
    lost_pending,   \* render returned Lost and the surface was not configured since
    stale_acquire,  \* get_current_texture was called while lost_pending
    close_seen,     \* CloseRequested was delivered
    exit_cause,     \* why the process ended
    logged,         \* the error last written by eprintln!, "none" before
    configures,     \* number of surface.configure calls (at most one in new)
    pair            \* both renderers side by side on one window (PairSpec)

envVars == <<window, control_flow, phase, redraw_requested, other_redraw,
             last_event, exit_code, close_seen, exit_cause, logged>>
newVars == <<surface, adapter, device, queue, surface_config, render_pipeline,
             texture_view_for_multisampling, shaders, configures>>
frameVars == <<output, view, encoder, pass, submits, presents, trace>>
ghostVars == <<pre, lost_pending, stale_acquire, renders>>
vars == <<variant, pc, envVars, newVars, frameVars, ghostVars, rpc, result,
          pair>>

\* the fields of struct Renderer
RendererFields ==
    [surface |-> surface, device |-> device, queue |-> queue,
     render_pipeline |-> render_pipeline,
     texture_view_for_multisampling |-> texture_view_for_multisampling]

\* the locals of a render call that has not acquired anything yet
FreshFrame(p) ==
    [rpc |-> p, trace |-> <<>>, result |-> "none", output |-> NoOutput,
     view |-> FALSE, encoder |-> "none", pass |-> NoPass, submits |-> 0,
     presents |-> 0]

\* no renderer built
NoRenderer == [config |-> NoConfig, render_pipeline |-> NoPipeline,
               texture_view_for_multisampling |-> NoTexture]

NoPair == [single |-> NoRenderer, msaa |-> NoRenderer,
           single_frame |-> FreshFrame("idle"),
           msaa_frame |-> FreshFrame("idle")]

MainInit ==
    /\ variant \in Variants
    /\ pc = "build_window"
    /\ window = [created |-> FALSE, size |-> NoSize]
    /\ surface = [created |-> FALSE, config |-> NoConfig]
    /\ adapter = FALSE
    /\ device = FALSE
    /\ queue = FALSE
    /\ surface_config = NoConfig
    /\ render_pipeline = NoPipeline
    /\ texture_view_for_multisampling = NoTexture
    /\ shaders = FALSE
    /\ control_flow = "Poll"
    /\ phase = "events"
    /\ redraw_requested = FALSE
    /\ other_redraw = FALSE
    /\ last_event = "None"
    /\ exit_code = -1
    /\ rpc = "idle"
    /\ output = NoOutput
    /\ view = FALSE
    /\ encoder = "none"
    /\ pass = NoPass
    /\ submits = 0
    /\ presents = 0
    /\ result = "none"
    /\ trace = <<>>
    /\ renders = 0
    /\ pre = RendererFields
    /\ lost_pending = FALSE
    /\ stale_acquire = FALSE
    /\ close_seen = FALSE
    /\ exit_cause = "none"
    /\ logged = "none"
    /\ configures = 0

Init == MainInit /\ pair = NoPair

\* a failed unwrap: the main thread panics and the process ends
Panic(cause) ==
    /\ pc' = "exited"
    /\ exit_code' = PanicExitCode
    /\ exit_cause' = cause

\* ---------------------------------------------------------------- startup
\* main.rs:13-14  EventLoop::new(); WindowBuilder::new().build(&event_loop).unwrap()
BuildWindow ==
    /\ pc = "build_window"
    /\ \/ \E sz \in Sizes :
            /\ window' = [created |-> TRUE, size |-> sz]
            /\ pc' = "create_surface"
            /\ UNCHANGED <<exit_code, exit_cause>>
       \/ /\ Panic("window")
          /\ UNCHANGED window
    /\ UNCHANGED <<variant, pair, control_flow, phase, redraw_requested, other_redraw,
                   last_event, close_seen, logged, newVars, frameVars, ghostVars,
                   rpc, result>>

\* Instance::new and instance.create_surface(window).unwrap()
CreateSurface ==
    /\ pc = "create_surface"
    /\ \/ /\ surface' = [created |-> TRUE, config |-> NoConfig]
          /\ pc' = "request_adapter"
          /\ UNCHANGED <<exit_code, exit_cause>>
       \/ /\ Panic("surface")
          /\ UNCHANGED surface
    /\ UNCHANGED <<variant, pair, window, control_flow, phase, redraw_requested,
                   other_redraw, last_event, close_seen, logged, adapter, device,
                   queue, surface_config, render_pipeline, texture_view_for_multisampling,
                   shaders, configures, frameVars, ghostVars, rpc, result>>

\* instance.request_adapter(..).await.unwrap(): None when no compatible adapter
RequestAdapter ==
    /\ pc = "request_adapter"
    /\ \/ /\ adapter' = TRUE
          /\ pc' = "request_device"
          /\ UNCHANGED <<exit_code, exit_cause>>
       \/ /\ Panic("no_adapter")
          /\ UNCHANGED adapter
    /\ UNCHANGED <<variant, pair, window, control_flow, phase, redraw_requested,
                   other_redraw, last_event, close_seen, logged, surface, device,
                   queue, surface_config, render_pipeline, texture_view_for_multisampling,
                   shaders, configures, frameVars, ghostVars, rpc, result>>

\* NewNext without the surface.configure call
NewNextSkipsConfigure(v, step) ==
    IF v = "single"
    THEN CASE step = "request_device" -> "shaders"
           [] step = "shaders" -> "default_config"
           [] step = "default_config" -> "pipeline"
           [] step = "pipeline" -> "run"
           [] step = "configure" -> "run"
    ELSE CASE step = "request_device" -> "default_config"
           [] step = "default_config" -> "texture"
           [] step = "texture" -> "shaders"
           [] step = "shaders" -> "pipeline"
           [] step = "pipeline" -> "run"
           [] step = "configure" -> "run"

\* the order of the remaining statements of Renderer::new in each variant
NewNext(v, step) ==
    IF v = "single"
    THEN CASE step = "request_device" -> "shaders"
           [] step = "shaders" -> "default_config"
           [] step = "default_config" -> "pipeline"
           [] step = "pipeline" -> "configure"
           [] step = "configure" -> "run"
    ELSE CASE step = "request_device" -> "default_config"
           [] step = "default_config" -> "texture"
           [] step = "texture" -> "shaders"
           [] step = "shaders" -> "pipeline"
           [] step = "pipeline" -> "configure"
           [] step = "configure" -> "run"

\* adapter.request_device(..).await.unwrap()
RequestDevice ==
    /\ pc = "request_device"
    /\ \/ /\ device' = TRUE
          /\ queue' = TRUE
          /\ pc' = NewNext(variant, "request_device")
          /\ UNCHANGED <<exit_code, exit_cause>>
       \/ /\ Panic("device_rejected")
          /\ UNCHANGED <<device, queue>>
    /\ UNCHANGED <<variant, pair, window, control_flow, phase, redraw_requested,
                   other_redraw, last_event, close_seen, logged, surface, adapter,
                   surface_config, render_pipeline, texture_view_for_multisampling,
                   shaders, configures, frameVars, ghostVars, rpc, result>>

\* device.create_shader_module twice and create_pipeline_layout
CreateShaderModules ==
    /\ pc = "shaders"
    /\ shaders' = TRUE
    /\ pc' = NewNext(variant, "shaders")
    /\ UNCHANGED <<variant, pair, envVars, surface, adapter, device, queue,
                   surface_config, render_pipeline, texture_view_for_multisampling,
                   configures, frameVars, ghostVars, rpc, result>>

\* window.inner_size(); surface.get_default_config(&adapter, w, h).unwrap()
GetDefaultConfig ==
    /\ pc = "default_config"
    /\ \/ \E f \in Formats :
            /\ surface_config' = [width |-> window.size.width,
                                  height |-> window.size.height, format |-> f]
            /\ pc' = NewNext(variant, "default_config")
            /\ UNCHANGED <<exit_code, exit_cause>>
       \/ /\ Panic("no_default_config")
          /\ UNCHANGED surface_config
    /\ UNCHANGED <<variant, pair, window, control_flow, phase, redraw_requested,
                   other_redraw, last_event, close_seen, logged, surface, adapter,
                   device, queue, render_pipeline, texture_view_for_multisampling, shaders,
                   configures, frameVars, ghostVars, rpc, result>>

\* MultisampleTexture with width and height exchanged
MultisampleTextureSwapped(size, config) ==
    [width |-> size.height, height |-> size.width, format |-> config.format,
     sample_count |-> SAMPLE_COUNT]

\* the texture descriptor of the multisampled attachment
MultisampleTexture(size, config) ==
    [width |-> size.width, height |-> size.height, format |-> config.format,
     sample_count |-> SAMPLE_COUNT]

\* device.create_texture(..).create_view(..) of the msaa variant
CreateTexture ==
    /\ pc = "texture"
    /\ texture_view_for_multisampling' = MultisampleTexture(window.size, surface_config)
    /\ pc' = NewNext(variant, "texture")
    /\ UNCHANGED <<variant, pair, envVars, surface, adapter, device, queue,
                   surface_config, render_pipeline, shaders, configures, frameVars,
                   ghostVars, rpc, result>>

\* PipelineSampleCount copied from the single-sample renderer
PipelineSampleCountSingle(v) == SINGLE_SAMPLE_COUNT

\* multisample.count of the pipeline descriptor
PipelineSampleCount(v) == IF v = "msaa" THEN SAMPLE_COUNT ELSE SINGLE_SAMPLE_COUNT

\* device.create_render_pipeline(..)
CreateRenderPipeline ==
    /\ pc = "pipeline"
    /\ render_pipeline' = [format |-> surface_config.format,
                           sample_count |-> PipelineSampleCount(variant)]
    /\ pc' = NewNext(variant, "pipeline")
    /\ UNCHANGED <<variant, pair, envVars, surface, adapter, device, queue,
                   surface_config, texture_view_for_multisampling, shaders,
                   configures, frameVars, ghostVars, rpc, result>>

\* surface.configure(&device, &surface_config); Self { .. }; event_loop.run
SurfaceConfigure ==
    /\ pc = "configure"
    /\ surface' = [surface EXCEPT !.config = surface_config]
    /\ configures' = configures + 1
    /\ lost_pending' = FALSE
    /\ pc' = NewNext(variant, "configure")
    /\ UNCHANGED <<variant, pair, envVars, adapter, device, queue, surface_config,
                   render_pipeline, texture_view_for_multisampling, shaders,
                   frameVars, pre, stale_acquire, renders, rpc, result>>

Startup ==
    \/ BuildWindow \/ CreateSurface \/ RequestAdapter \/ RequestDevice
    \/ CreateShaderModules \/ GetDefaultConfig \/ CreateTexture
    \/ CreateRenderPipeline \/ SurfaceConfigure

\* ------------------------------------------------------- Renderer::render
\* NextStep with present and submit exchanged
NextStepPresentFirst(step) ==
    CASE step = "get_current_texture" -> "create_view"
      [] step = "create_view" -> "create_command_encoder"
      [] step = "create_command_encoder" -> "begin_render_pass"
      [] step = "begin_render_pass" -> "set_pipeline"
      [] step = "set_pipeline" -> "draw"
      [] step = "draw" -> "end_render_pass"
      [] step = "end_render_pass" -> "finish"
      [] step = "finish" -> "present"
      [] step = "present" -> "submit"
      [] step = "submit" -> "return_ok"

\* NextStep with draw before set_pipeline
NextStepDrawFirst(step) ==
    CASE step = "get_current_texture" -> "create_view"
      [] step = "create_view" -> "create_command_encoder"
      [] step = "create_command_encoder" -> "begin_render_pass"
      [] step = "begin_render_pass" -> "draw"
      [] step = "draw" -> "set_pipeline"
      [] step = "set_pipeline" -> "end_render_pass"
      [] step = "end_render_pass" -> "finish"
      [] step = "finish" -> "submit"
      [] step = "submit" -> "present"
      [] step = "present" -> "return_ok"

\* NextStep without output.present()
NextStepNoPresent(step) ==
    CASE step = "get_current_texture" -> "create_view"
      [] step = "create_view" -> "create_command_encoder"
      [] step = "create_command_encoder" -> "begin_render_pass"
      [] step = "begin_render_pass" -> "set_pipeline"
      [] step = "set_pipeline" -> "draw"
      [] step = "draw" -> "end_render_pass"
      [] step = "end_render_pass" -> "finish"
      [] step = "finish" -> "submit"
      [] step = "submit" -> "return_ok"
      [] step = "present" -> "return_ok"

\* the statements of render in program order: what follows each one
NextStep(step) ==
    CASE step = "get_current_texture" -> "create_view"
      [] step = "create_view" -> "create_command_encoder"
      [] step = "create_command_encoder" -> "begin_render_pass"
      [] step = "begin_render_pass" -> "set_pipeline"
      [] step = "set_pipeline" -> "draw"
      [] step = "draw" -> "end_render_pass"
      [] step = "end_render_pass" -> "finish"
      [] step = "finish" -> "submit"
      [] step = "submit" -> "present"
      [] step = "present" -> "return_ok"

\* AfterAcquire without the ?: the error is not propagated
AfterAcquireIgnoresError(o) == NextStep("get_current_texture")

\* the ? after get_current_texture(): an Err leaves render at once
AfterAcquire(o) ==
    IF o = "Ok" THEN NextStep("get_current_texture") ELSE "returned"

\* the SurfaceTexture handed out by a surface with the applied configuration c
SurfaceTexture(c) ==
    [acquired |-> TRUE, width |-> c.width, height |-> c.height,
     format |-> c.format, sample_count |-> 1, presented |-> FALSE]

\* let output = self.surface.get_current_texture()?;
GetCurrentTexture ==
    /\ rpc = "get_current_texture"
    /\ \E o \in AcquireOutcomes :
        /\ rpc' = AfterAcquire(o)
        /\ output' = IF o = "Ok" THEN SurfaceTexture(surface.config) ELSE output
        /\ result' = IF o = "Ok" THEN result ELSE o
        /\ lost_pending' = (lost_pending \/ o = "Lost")
    /\ stale_acquire' = (stale_acquire \/ lost_pending)
    /\ trace' = Append(trace, "get_current_texture")
    /\ UNCHANGED <<variant, pair, pc, envVars, newVars, view, encoder, pass, submits,
                   presents, pre, renders>>

\* let view = output.texture.create_view(..)
CreateView ==
    /\ rpc = "create_view"
    /\ view' = TRUE
    /\ trace' = Append(trace, "create_view")
    /\ rpc' = NextStep("create_view")
    /\ UNCHANGED <<variant, pair, pc, envVars, newVars, output, encoder, pass, submits,
                   presents, ghostVars, result>>

\* let mut encoder = self.device.create_command_encoder(..)
CreateCommandEncoder ==
    /\ rpc = "create_command_encoder"
    /\ encoder' = "open"
    /\ trace' = Append(trace, "create_command_encoder")
    /\ rpc' = NextStep("create_command_encoder")
    /\ UNCHANGED <<variant, pair, pc, envVars, newVars, output, view, pass, submits,
                   presents, ghostVars, result>>

\* the colour attachment of the single-sample render pass
SingleColorAttachment(out) ==
    [open |-> TRUE, color_attachments |-> 1,
     view |-> "view", resolve_target |-> "None",
     load |-> "Clear(BLACK)", store |-> TRUE, depth_stencil |-> "None",
     view_size |-> [width |-> out.width, height |-> out.height],
     resolve_size |-> NoSize, view_samples |-> out.sample_count,
     pipeline_set |-> FALSE, draws |-> <<>>]

\* MsaaColorAttachment with resolve_target: None left over from the
\* single-sample renderer
MsaaColorAttachmentNoResolve(out, tex) ==
    [open |-> TRUE, color_attachments |-> 1,
     view |-> "texture_view_for_multisampling",
     resolve_target |-> "None",
     load |-> "Clear(BLACK)", store |-> TRUE, depth_stencil |-> "None",
     view_size |-> [width |-> tex.width, height |-> tex.height],
     resolve_size |-> NoSize,
     view_samples |-> tex.sample_count,
     pipeline_set |-> FALSE, draws |-> <<>>]

\* the colour attachment of the multisample render pass
MsaaColorAttachment(out, tex) ==
    [open |-> TRUE, color_attachments |-> 1,
     view |-> "texture_view_for_multisampling",
     resolve_target |-> "view",
     load |-> "Clear(BLACK)", store |-> TRUE, depth_stencil |-> "None",
     view_size |-> [width |-> tex.width, height |-> tex.height],
     resolve_size |-> [width |-> out.width, height |-> out.height],
     view_samples |-> tex.sample_count,
     pipeline_set |-> FALSE, draws |-> <<>>]

\* BeginRenderPass allocating a fresh multisampled texture for every frame
BeginRenderPassReallocates ==
    /\ rpc = "begin_render_pass"
    /\ encoder' = "in_pass"
    /\ texture_view_for_multisampling' =
           MultisampleTexture(window.size, surface_config)
    /\ pass' = IF variant = "msaa"
               THEN MsaaColorAttachment(output, texture_view_for_multisampling')
               ELSE SingleColorAttachment(output)
    /\ trace' = Append(trace, "begin_render_pass")
    /\ rpc' = NextStep("begin_render_pass")
    /\ UNCHANGED <<variant, pair, pc, envVars, surface, adapter, device, queue,
                   surface_config, render_pipeline, shaders, configures, output,
                   view, submits, presents, ghostVars, result>>

\* let mut render_pass = encoder.begin_render_pass(..)
BeginRenderPass ==
    /\ rpc = "begin_render_pass"
    /\ encoder' = "in_pass"
    /\ pass' = IF variant = "msaa"
               THEN MsaaColorAttachment(output, texture_view_for_multisampling)
               ELSE SingleColorAttachment(output)
    /\ trace' = Append(trace, "begin_render_pass")
    /\ rpc' = NextStep("begin_render_pass")
    /\ UNCHANGED <<variant, pair, pc, envVars, newVars, output, view, submits,
                   presents, ghostVars, result>>

\* render_pass.set_pipeline(&self.render_pipeline)
SetPipeline ==
    /\ rpc = "set_pipeline"
    /\ pass' = [pass EXCEPT !.pipeline_set = TRUE]
    /\ trace' = Append(trace, "set_pipeline")
    /\ rpc' = NextStep("set_pipeline")
    /\ UNCHANGED <<variant, pair, pc, envVars, newVars, output, view, encoder, submits,
                   presents, ghostVars, result>>

\* render_pass.draw(0..3, 0..1)
Draw ==
    /\ rpc = "draw"
    /\ pass' = [pass EXCEPT !.draws =
                    Append(@, [vertices |-> <<0, 3>>, instances |-> <<0, 1>>,
                               pipeline_set |-> pass.pipeline_set])]
    /\ trace' = Append(trace, "draw")
    /\ rpc' = NextStep("draw")
    /\ UNCHANGED <<variant, pair, pc, envVars, newVars, output, view, encoder, submits,
                   presents, ghostVars, result>>

\* the closing brace of the block: render_pass is dropped, the pass ends
EndRenderPass ==
    /\ rpc = "end_render_pass"
    /\ pass' = [pass EXCEPT !.open = FALSE]
    /\ encoder' = "open"
    /\ trace' = Append(trace, "end_render_pass")
    /\ rpc' = NextStep("end_render_pass")
    /\ UNCHANGED <<variant, pair, pc, envVars, newVars, output, view, submits,
                   presents, ghostVars, result>>

\* encoder.finish()
Finish ==
    /\ rpc = "finish"
    /\ encoder' = "finished"
    /\ trace' = Append(trace, "finish")
    /\ rpc' = NextStep("finish")
    /\ UNCHANGED <<variant, pair, pc, envVars, newVars, output, view, pass, submits,
                   presents, ghostVars, result>>

\* self.queue.submit(std::iter::once(..)): the command buffer moves to the queue
Submit ==
    /\ rpc = "submit"
    /\ submits' = submits + 1
    /\ encoder' = "submitted"
    /\ trace' = Append(trace, "submit")
    /\ rpc' = NextStep("submit")
    /\ UNCHANGED <<variant, pair, pc, envVars, newVars, output, view, pass,
                   presents, ghostVars, result>>

\* output.present()
Present ==
    /\ rpc = "present"
    /\ output' = [output EXCEPT !.presented = TRUE]
    /\ presents' = presents + 1
    /\ trace' = Append(trace, "present")
    /\ rpc' = NextStep("present")
    /\ UNCHANGED <<variant, pair, pc, envVars, newVars, view, encoder, pass, submits,
                   ghostVars, result>>

\* Ok(()) and the end of the function body: the local view is dropped
ReturnOk ==
    /\ rpc = "return_ok"
    /\ result' = "Ok"
    /\ view' = FALSE
    /\ rpc' = "returned"
    /\ UNCHANGED <<variant, pair, pc, envVars, newVars, output, encoder, pass, submits,
                   presents, trace, ghostVars>>

Render ==
    \/ GetCurrentTexture \/ CreateView \/ CreateCommandEncoder \/ BeginRenderPass
    \/ SetPipeline \/ Draw \/ EndRenderPass \/ Finish \/ Submit \/ Present
    \/ ReturnOk

\* ------------------------------------------- the two renderers side by side
\* StepAfter with output.present() missing from the multisample render
StepAfterMsaaNoPresent(v, step) ==
    IF v = "msaa" THEN NextStepNoPresent(step) ELSE NextStep(step)

\* what follows a statement of render in variant v: the two bodies have the
\* same statements in the same order
StepAfter(v, step) == NextStep(step)

\* the Renderer that new of variant v returns for a window of size sz whose
\* surface has the default format f
BuildRenderer(v, sz, f) ==
    LET c == [width |-> sz.width, height |-> sz.height, format |-> f] IN
    [config |-> c,
     render_pipeline |-> [format |-> c.format,
                          sample_count |-> PipelineSampleCount(v)],
     texture_view_for_multisampling |->
         IF v = "msaa" THEN MultisampleTexture(sz, c) ELSE NoTexture]

\* one statement of render of variant v on the renderer r, with locals f, when
\* get_current_texture answers o
FrameStep(v, r, f, o) ==
    LET g == [f EXCEPT !.trace = Append(@, f.rpc), !.rpc = StepAfter(v, f.rpc)] IN
    CASE f.rpc = "get_current_texture" ->
            [g EXCEPT !.rpc = AfterAcquire(o),
                      !.output = IF o = "Ok" THEN SurfaceTexture(r.config) ELSE @,
                      !.result = IF o = "Ok" THEN @ ELSE o]
      [] f.rpc = "create_view" -> [g EXCEPT !.view = TRUE]
      [] f.rpc = "create_command_encoder" -> [g EXCEPT !.encoder = "open"]
      [] f.rpc = "begin_render_pass" ->
            [g EXCEPT !.encoder = "in_pass",
                      !.pass = IF v = "msaa"
                               THEN MsaaColorAttachment(f.output,
                                        r.texture_view_for_multisampling)
                               ELSE SingleColorAttachment(f.output)]
      [] f.rpc = "set_pipeline" -> [g EXCEPT !.pass.pipeline_set = TRUE]
      [] f.rpc = "draw" ->
            [g EXCEPT !.pass.draws =
                 Append(@, [vertices |-> <<0, 3>>, instances |-> <<0, 1>>,
                            pipeline_set |-> f.pass.pipeline_set])]
      [] f.rpc = "end_render_pass" ->
            [g EXCEPT !.pass.open = FALSE, !.encoder = "open"]
      [] f.rpc = "finish" -> [g EXCEPT !.encoder = "finished"]
      [] f.rpc = "submit" ->
            [g EXCEPT !.submits = @ + 1, !.encoder = "submitted"]
      [] f.rpc = "present" ->
            [g EXCEPT !.presents = @ + 1, !.output.presented = TRUE]
      [] f.rpc = "return_ok" ->
            [f EXCEPT !.rpc = "returned", !.result = "Ok", !.view = FALSE]

FrameRunning(f) == f.rpc \notin {"idle", "returned"}

\* both binaries started on the same window and adapter
PairInit ==
    /\ MainInit
    /\ \E sz \in Sizes, f \in Formats :
        pair = [single |-> BuildRenderer("single", sz, f),
                msaa |-> BuildRenderer("msaa", sz, f),
                single_frame |-> FreshFrame("idle"),
                msaa_frame |-> FreshFrame("idle")]

\* the same redraw signal reaches both: each calls render
PairRedraw ==
    /\ pair.single_frame.rpc = "idle" /\ pair.msaa_frame.rpc = "idle"
    /\ pair' = [pair EXCEPT !.single_frame = FreshFrame("get_current_texture"),
                            !.msaa_frame = FreshFrame("get_current_texture")]
    /\ UNCHANGED <<variant, pc, envVars, newVars, frameVars, ghostVars, rpc,
                   result>>

\* each render call still running executes its next statement; both surfaces
\* give the same answer o to get_current_texture
PairStep ==
    /\ FrameRunning(pair.single_frame) \/ FrameRunning(pair.msaa_frame)
    /\ \E o \in AcquireOutcomes :
        pair' = [pair EXCEPT
                   !.single_frame =
                       IF FrameRunning(@)
                       THEN FrameStep("single", pair.single, @, o) ELSE @,
                   !.msaa_frame =
                       IF FrameRunning(@)
                       THEN FrameStep("msaa", pair.msaa, @, o) ELSE @]
    /\ UNCHANGED <<variant, pc, envVars, newVars, frameVars, ghostVars, rpc,
                   result>>

\* both calls have returned: the closures finish handling the signal
PairReturn ==
    /\ pair.single_frame.rpc = "returned" /\ pair.msaa_frame.rpc = "returned"
    /\ pair' = [pair EXCEPT !.single_frame.rpc = "idle",
                            !.msaa_frame.rpc = "idle"]
    /\ UNCHANGED <<variant, pc, envVars, newVars, frameVars, ghostVars, rpc,
                   result>>

PairNext == PairRedraw \/ PairStep \/ PairReturn

PairSpec == PairInit /\ [][PairNext]_vars

\* ----------------------------------------------------- the event loop closure
Running == pc = "run" /\ rpc = "idle"

\* a WindowEvent::Resized: the window has its new size; the closure's _ arm
DeliverResized ==
    /\ Running
    /\ phase = "events"
    /\ \E sz \in Sizes :
        /\ sz # window.size
        /\ window' = [window EXCEPT !.size = sz]
    /\ last_event' = "Resized"
    /\ renders' = 0
    /\ UNCHANGED <<variant, pair, pc, control_flow, phase, redraw_requested, other_redraw,
                   exit_code, close_seen, exit_cause, logged, newVars, frameVars,
                   pre, lost_pending, stale_acquire, rpc, result>>

\* a WindowEvent::CloseRequested: the closure's _ arm
DeliverCloseRequested ==
    /\ Running
    /\ phase = "events"
    /\ close_seen' = TRUE
    /\ last_event' = "CloseRequested"
    /\ renders' = 0
    /\ UNCHANGED <<variant, pair, pc, window, control_flow, phase, redraw_requested,
                   other_redraw, exit_code, exit_cause, logged, newVars, frameVars,
                   pre, lost_pending, stale_acquire, rpc, result>>

\* Event::MainEventsCleared => window.request_redraw()
DeliverMainEventsCleared ==
    /\ Running
    /\ phase = "events"
    /\ redraw_requested' = TRUE
    /\ other_redraw' \in BOOLEAN
    /\ phase' = "redraw"
    /\ last_event' = "MainEventsCleared"
    /\ renders' = 0
    /\ UNCHANGED <<variant, pair, pc, window, control_flow, exit_code, close_seen,
                   exit_cause, logged, newVars, frameVars, pre, lost_pending,
                   stale_acquire, rpc, result>>

\* DeliverRedrawRequestedOther without the window_id == window.id() guard
DeliverRedrawRequestedOtherUnguarded ==
    /\ pc = "run" /\ rpc = "idle"
    /\ phase = "redraw"
    /\ other_redraw
    /\ other_redraw' = FALSE
    /\ last_event' = "RedrawRequested(other)"
    /\ renders' = 1
    /\ rpc' = "get_current_texture"
    /\ pre' = RendererFields
    /\ output' = NoOutput
    /\ view' = FALSE
    /\ encoder' = "none"
    /\ pass' = NoPass
    /\ submits' = 0
    /\ presents' = 0
    /\ trace' = <<>>
    /\ UNCHANGED <<variant, pair, pc, window, control_flow, phase, redraw_requested,
                   exit_code, close_seen, exit_cause, logged, newVars,
                   lost_pending, stale_acquire, result>>

\* Event::RedrawRequested(id) with id # window.id(): the guard fails, the _ arm
DeliverRedrawRequestedOther ==
    /\ Running
    /\ phase = "redraw"
    /\ other_redraw
    /\ other_redraw' = FALSE
    /\ last_event' = "RedrawRequested(other)"
    /\ renders' = 0
    /\ UNCHANGED <<variant, pair, pc, window, control_flow, phase, redraw_requested,
                   exit_code, close_seen, exit_cause, logged, newVars, frameVars,
                   pre, lost_pending, stale_acquire, rpc, result>>

\* Event::RedrawRequested(window_id) if window_id == window.id(): state.render()
DeliverRedrawRequested ==
    /\ Running
    /\ phase = "redraw"
    /\ redraw_requested
    /\ redraw_requested' = FALSE
    /\ last_event' = "RedrawRequested"
    /\ renders' = 1
    /\ rpc' = "get_current_texture"
    /\ pre' = RendererFields
    /\ output' = NoOutput
    /\ view' = FALSE
    /\ encoder' = "none"
    /\ pass' = NoPass
    /\ submits' = 0
    /\ presents' = 0
    /\ trace' = <<>>
    /\ UNCHANGED <<variant, pair, pc, window, control_flow, phase, other_redraw,
                   exit_code, close_seen, exit_cause, logged, newVars,
                   lost_pending, stale_acquire, result>>

\* ControlFlowAfter without the OutOfMemory arm
ControlFlowAfterNeverExits(r, cf) == cf

\* ControlFlowAfter with Lost handled like OutOfMemory
ControlFlowAfterLostExits(r, cf) ==
    IF r \in {"OutOfMemory", "Lost"} THEN "Exit" ELSE cf

\* ControlFlowAfter with every error ending the loop
ControlFlowAfterAnyErrorExits(r, cf) == IF r # "Ok" THEN "Exit" ELSE cf

\* the arms of match state.render(): the value of *control_flow afterwards
ControlFlowAfter(r, cf) == IF r = "OutOfMemory" THEN "Exit" ELSE cf

\* the arms of match state.render(): what eprintln! writes
LoggedAfter(r, l) == IF r \in {"Outdated", "Timeout"} THEN r ELSE l

\* match state.render() { .. }
MatchResult ==
    /\ pc = "run"
    /\ rpc = "returned"
    /\ control_flow' = ControlFlowAfter(result, control_flow)
    /\ logged' = LoggedAfter(result, logged)
    /\ exit_cause' = IF result = "OutOfMemory" THEN "out_of_memory" ELSE exit_cause
    /\ rpc' = "idle"
    /\ UNCHANGED <<variant, pair, pc, window, phase, redraw_requested, other_redraw,
                   last_event, exit_code, close_seen, newVars, frameVars,
                   ghostVars, result>>

\* the end of an iteration: with ControlFlow::Exit the loop ends the process
DeliverRedrawEventsCleared ==
    /\ Running
    /\ phase = "redraw"
    /\ ~redraw_requested
    /\ ~other_redraw
    /\ last_event' = "RedrawEventsCleared"
    /\ renders' = 0
    /\ IF control_flow = "Exit"
       THEN /\ pc' = "exited"
            /\ exit_code' = ExitCodeOfControlFlowExit
            /\ UNCHANGED phase
       ELSE /\ phase' = "events"
            /\ UNCHANGED <<pc, exit_code>>
    /\ UNCHANGED <<variant, pair, window, control_flow, redraw_requested, other_redraw,
                   close_seen, exit_cause, logged, newVars, frameVars, pre,
                   lost_pending, stale_acquire, rpc, result>>

EventLoop ==
    \/ DeliverResized \/ DeliverCloseRequested \/ DeliverMainEventsCleared
    \/ DeliverRedrawRequestedOther \/ DeliverRedrawRequested \/ MatchResult
    \/ DeliverRedrawEventsCleared

Next == Startup \/ Render \/ EventLoop

Spec == Init /\ [][Next]_vars

\* the event loop delivers every pending event and render runs to its end
FairSpec ==
    /\ Spec
    /\ WF_vars(Startup)
    /\ WF_vars(Render)
    /\ WF_vars(MatchResult)
    /\ WF_vars(DeliverMainEventsCleared)
    /\ WF_vars(DeliverRedrawRequested)
    /\ WF_vars(DeliverRedrawRequestedOther)
    /\ WF_vars(DeliverRedrawEventsCleared)

\* ------------------------------------------------------------- properties
\* the wgpu calls of one successful render call
FullCycle ==
    <<"get_current_texture", "create_view", "create_command_encoder",
      "begin_render_pass", "set_pipeline", "draw", "end_render_pass", "finish",
      "submit", "present">>

IsPrefix(s, t) == Len(s) <= Len(t) /\ s = SubSeq(t, 1, Len(s))

\* the state of the frame renderer's state machine at a position of render
FrameState(p) ==
    CASE p \in {"idle", "returned"} -> "Idle"
      [] p = "get_current_texture" -> "Acquiring"
      [] p \in {"create_view", "create_command_encoder", "begin_render_pass",
                "set_pipeline", "draw", "end_render_pass", "finish", "submit"}
            -> "Recording"
      [] p = "present" -> "Submitted"
      [] p = "return_ok" -> "Presented"

InRender == rpc \notin {"idle", "returned"}

TransientErrors == {"Lost", "Outdated", "Timeout"}

\* C1: a render call whose acquisition succeeded makes the calls of FullCycle in
\* that order (Acquiring, Recording, Submitted, Presented) and returns Ok: the
\* submission comes after the pass was recorded and closed and the encoder
\* finished, the present after the submission, and there is exactly one of each.
C1_FrameCycleOrder ==
    /\ IsPrefix(trace, FullCycle)
    /\ submits <= 1 /\ presents <= 1
    /\ (submits >= 1 =>
            /\ ~pass.open /\ pass.draws # <<>> /\ encoder = "submitted"
            /\ FrameState(rpc) \in {"Submitted", "Presented", "Idle"})
    /\ (presents >= 1 =>
            /\ submits = 1
            /\ FrameState(rpc) \in {"Presented", "Idle"})
    /\ (FrameState(rpc) = "Presented" => output.presented)
    /\ (rpc = "returned" /\ output.acquired =>
            /\ result = "Ok"
            /\ trace = FullCycle
            /\ submits = 1 /\ presents = 1)

C1_Witness ==
    /\ rpc = "returned" /\ output.acquired /\ result = "Ok"
    /\ trace = FullCycle /\ variant = "msaa"

\* C2: no acquisition is attempted while a Lost outcome is still waiting for
\* the surface to be configured again.
C2_ReconfigureBeforeRetry == ~stale_acquire

\* C3: once render has returned OutOfMemory, exit is requested by the end of the
\* same handler, and no later render call, acquisition, submission or present
\* happens.
C3_OutOfMemoryTerminates ==
    /\ [](result = "OutOfMemory" /\ rpc = "idle" => control_flow = "Exit")
    /\ [][result = "OutOfMemory" =>
            /\ result' = "OutOfMemory"
            /\ rpc' \in {"returned", "idle"}
            /\ trace' = trace /\ submits' = submits /\ presents' = presents]_vars

C3_Witness ==
    /\ pc = "exited" /\ exit_cause = "out_of_memory"
    /\ result = "OutOfMemory" /\ control_flow = "Exit"

\* C4: after the handler of a redraw signal, exit is requested exactly when the
\* render call returned OutOfMemory; Lost, Outdated and Timeout leave the
\* control flow alone.
C4_ExitIffOutOfMemory ==
    rpc = "idle" =>
        /\ (control_flow = "Exit" <=> result = "OutOfMemory")
        /\ (result \in TransientErrors => control_flow = "Poll")

C4_Witness ==
    /\ rpc = "idle" /\ result = "Lost" /\ control_flow = "Poll"
    /\ last_event = "RedrawRequested"

\* C5: a process that ended on a missing adapter, a rejected device or an
\* OutOfMemory acquisition has a non-zero exit code, and exit code 0 means the
\* window was closed.
C5_ExitCodes ==
    pc = "exited" =>
        /\ (exit_cause \in {"no_adapter", "device_rejected", "out_of_memory"}
                => exit_code # 0)
        /\ (exit_code = 0 => exit_cause = "close_requested")

\* C6: a render call whose acquisition failed has returned that error having
\* made no other call: no view, encoder, pass, submission or present, and the
\* Renderer's fields are what they were when the call began.
C6_FailedAcquireSkipsFrame ==
    (trace # <<>> /\ ~output.acquired) =>
        /\ rpc \in {"returned", "idle"}
        /\ result \in SurfaceErrors
        /\ trace = <<"get_current_texture">>
        /\ ~view /\ encoder = "none" /\ pass = NoPass
        /\ submits = 0 /\ presents = 0
        /\ RendererFields = pre

C6_Witness ==
    /\ rpc = "returned" /\ result = "Timeout" /\ ~output.acquired
    /\ trace = <<"get_current_texture">>

\* C7: after Lost, Outdated or Timeout the loop keeps running with the control
\* flow untouched, only Outdated and Timeout are logged, and a later
\* acquisition attempt always follows.
C7_TransientErrorRetried ==
    /\ [](rpc = "idle" /\ result \in TransientErrors =>
            /\ control_flow = "Poll" /\ pc = "run"
            /\ (result = "Lost" \/ logged = result))
    /\ ((rpc = "returned" /\ result \in TransientErrors)
            ~> rpc = "get_current_texture")

C7_Witness ==
    rpc = "get_current_texture" /\ result = "Outdated" /\ logged = "Outdated"

\* C8: once CloseRequested was delivered, exit is requested and no render call
\* is started.
C8_CloseStopsLoop ==
    close_seen => (control_flow = "Exit" /\ rpc = "idle")

\* C9: while a frame is acquired, the applied surface configuration has the
\* window's current width and height.
C9_ConfigMatchesWindow ==
    (InRender /\ output.acquired) =>
        /\ surface.config.width = window.size.width
        /\ surface.config.height = window.size.height

C11_PipelineMatchesAttachment ==
    /\ (render_pipeline # NoPipeline =>
            /\ render_pipeline.sample_count =
                   (IF variant = "msaa" THEN 4 ELSE 1)
            /\ (variant = "msaa" =>
                    /\ render_pipeline.sample_count =
                           texture_view_for_multisampling.sample_count
                    /\ render_pipeline.format =
                           texture_view_for_multisampling.format))
    /\ (surface.config # NoConfig =>
            render_pipeline.format = surface.config.format)
    /\ (pass # NoPass =>
            /\ render_pipeline.sample_count = pass.view_samples
            /\ render_pipeline.format = output.format)

C11_Witness ==
    /\ variant = "msaa" /\ pass.open /\ pass.pipeline_set
    /\ render_pipeline.sample_count = 4 /\ pass.view_samples = 4
    /\ render_pipeline.format = surface.config.format

\* C12: a render call is only ever in progress or finished after the adapter,
\* device and queue were obtained, the shaders and the pipeline built and the
\* surface configured, exactly once; once the loop runs, no step of
\* Renderer::new happens again.
C12_InitOnceBeforeLoop ==
    /\ [](pc = "run" \/ rpc # "idle" \/ trace # <<>> =>
            /\ pc \in {"run", "exited"}
            /\ window.created /\ surface.created
            /\ adapter /\ device /\ queue /\ shaders
            /\ render_pipeline # NoPipeline
            /\ surface.config # NoConfig /\ surface.config = surface_config
            /\ (variant = "msaa" => texture_view_for_multisampling # NoTexture)
            /\ configures = 1)
    /\ [][pc = "run" => newVars' = newVars]_vars

C12_Witness ==
    /\ pc = "run" /\ rpc = "get_current_texture" /\ trace = <<>>
    /\ configures = 1 /\ result = "Ok"

\* C13: a process that ended because no adapter was found or the device request
\* was rejected has created no window and has started no render call.
C13_StartupAbortsBeforeWindow ==
    exit_cause \in {"no_adapter", "device_rejected"} =>
        /\ pc = "exited" /\ exit_code # 0
        /\ ~window.created
        /\ rpc = "idle" /\ trace = <<>>

\* C14: the handler of a redraw signal for the own window calls render exactly
\* once, and a render call is started by no other event: not MainEventsCleared,
\* not a redraw signal for another window id, not a window event.
C14_RenderOnlyOnOwnRedraw ==
    /\ [](/\ renders <= 1
          /\ (renders = 1 <=> last_event = "RedrawRequested")
          /\ (rpc # "idle" => last_event = "RedrawRequested"))
    /\ [][rpc = "idle" /\ rpc' # "idle" =>
            /\ redraw_requested /\ ~redraw_requested'
            /\ last_event' = "RedrawRequested"
            /\ rpc' = "get_current_texture"]_vars
    /\ [][redraw_requested /\ ~redraw_requested' =>
            rpc' = "get_current_texture" /\ renders' = 1]_vars

C14_Witness ==
    /\ last_event = "RedrawRequested(other)" /\ renders = 0 /\ rpc = "idle"
    /\ result = "Ok" /\ ~redraw_requested

\* how often x occurs in the sequence s
CountIn(s, x) == Cardinality({i \in 1..Len(s) : s[i] = x})

\* C15: a render call begins one render pass, with one colour attachment that
\* is cleared to opaque black and stored and no depth/stencil attachment; the
\* single-sample pass renders into the view of the acquired image with no
\* resolve target, the multisample pass renders into the multisampled texture
\* view and resolves into the view of the image acquired by the same call.
C15_RenderPassAttachment ==
    /\ CountIn(trace, "begin_render_pass") <= 1
    /\ (pass # NoPass <=> CountIn(trace, "begin_render_pass") = 1)
    /\ (pass # NoPass =>
            /\ output.acquired
            /\ SubSeq(trace, 1, 4) = SubSeq(FullCycle, 1, 4)
            /\ pass.color_attachments = 1
            /\ pass.load = "Clear(BLACK)" /\ pass.store
            /\ pass.depth_stencil = "None"
            /\ (variant = "single" =>
                    /\ pass.view = "view" /\ pass.resolve_target = "None"
                    /\ pass.view_size =
                           [width |-> output.width, height |-> output.height])
            /\ (variant = "msaa" =>
                    /\ pass.view = "texture_view_for_multisampling"
                    /\ pass.view_size =
                           [width |-> texture_view_for_multisampling.width,
                            height |-> texture_view_for_multisampling.height]
                    /\ pass.resolve_target = "view"
                    /\ pass.resolve_size =
                           [width |-> output.width, height |-> output.height]))

C15_Witness ==
    /\ variant = "single" /\ pass.open /\ pass.view = "view"
    /\ pass.load = "Clear(BLACK)" /\ pass.resolve_target = "None"

\* C16: a render pass has at most one draw, issued with the pipeline already
\* bound and covering vertices 0..3 and instances 0..1; no vertex or index
\* buffer is bound; and the encoder is finished only after the pass was closed
\* with exactly one draw in it.
C16_OneDrawAfterBind ==
    /\ Len(pass.draws) <= 1
    /\ \A i \in 1..Len(pass.draws) :
            /\ pass.draws[i].pipeline_set
            /\ pass.draws[i].vertices = <<0, 3>>
            /\ pass.draws[i].instances = <<0, 1>>
    /\ \A i \in 1..Len(trace) :
            trace[i] \notin {"set_vertex_buffer", "set_index_buffer"}
    /\ (pass # NoPass /\ ~pass.open =>
            Len(pass.draws) = 1 /\ pass.pipeline_set)
    /\ (encoder \in {"finished", "submitted"} =>
            pass # NoPass /\ ~pass.open /\ Len(pass.draws) = 1)

C16_Witness ==
    /\ encoder = "finished" /\ ~pass.open /\ Len(pass.draws) = 1
    /\ pass.draws[1].pipeline_set /\ rpc = "submit"

\* C17: whenever render is not running, no acquired image is unpresented and
\* no view, encoder, open pass or command buffer of the call is left; a render
\* call never starts, and an image is never acquired, while an earlier image is
\* still unpresented.
C17_FrameLivesOneCall ==
    /\ [](rpc \in {"idle", "returned"} =>
            /\ (output.acquired => output.presented)
            /\ ~view /\ ~pass.open
            /\ encoder \in {"none", "submitted"})
    /\ [][rpc = "idle" /\ rpc' # "idle" =>
            (output.acquired => output.presented)]_vars
    /\ [][output'.acquired /\ ~output'.presented /\ output' # output =>
            ~output.acquired]_vars

C17_Witness ==
    /\ rpc = "returned" /\ output.acquired /\ output.presented
    /\ ~view /\ encoder = "submitted" /\ presents = 1

\* C18: no step taken while the loop runs changes a field of the Renderer:
\* during and after every render call, successful or failed, the surface and
\* its applied configuration, the device, the queue, the pipeline and the
\* multisampled texture view are those the call found, which are those that
\* Renderer::new built from its surface_config.
C18_RenderKeepsResources ==
    /\ [](rpc # "idle" \/ trace # <<>> =>
            /\ RendererFields = pre
            /\ surface.created /\ surface.config = surface_config
            /\ device /\ queue
            /\ render_pipeline =
                   [format |-> surface_config.format,
                    sample_count |-> PipelineSampleCount(variant)]
            /\ texture_view_for_multisampling =
                   (IF variant = "msaa"
                    THEN [width |-> surface_config.width,
                          height |-> surface_config.height,
                          format |-> surface_config.format,
                          sample_count |-> SAMPLE_COUNT]
                    ELSE NoTexture))
    /\ [][pc = "run" => RendererFields' = RendererFields]_vars

C18_Witness ==
    /\ rpc = "returned" /\ result = "Ok" /\ logged = "Timeout"
    /\ RendererFields = pre /\ presents = 1

\* C19: side by side on the same acquisition outcomes, the two renderers are at
\* the same statement, have made the same calls and hold the same result,
\* image, encoder state and submit and present counts; their passes differ
\* only in which view is the colour attachment (with its size and sample
\* count) and which the resolve target, and their pipelines only in the sample
\* count, 1 against 4.
C19_VariantsEquivalent ==
    LET s == pair.single_frame
        m == pair.msaa_frame
    IN  /\ s.rpc = m.rpc /\ s.trace = m.trace /\ s.result = m.result
        /\ s.output = m.output /\ s.view = m.view /\ s.encoder = m.encoder
        /\ s.submits = m.submits /\ s.presents = m.presents
        /\ (s.rpc = "returned" =>
                /\ s.trace \in {FullCycle, <<"get_current_texture">>}
                /\ (s.trace = FullCycle <=> s.result = "Ok"))
        /\ [s.pass EXCEPT !.view = m.pass.view,
                          !.resolve_target = m.pass.resolve_target,
                          !.view_size = m.pass.view_size,
                          !.resolve_size = m.pass.resolve_size,
                          !.view_samples = m.pass.view_samples] = m.pass
        /\ (s.pass # NoPass =>
                /\ s.pass.view = m.pass.resolve_target
                /\ s.pass.view_size = m.pass.resolve_size
                /\ s.pass.view # m.pass.view)
        /\ pair.single.config = pair.msaa.config
        /\ pair.single.render_pipeline.format = pair.msaa.render_pipeline.format
        /\ pair.single.render_pipeline.sample_count = 1
        /\ pair.msaa.render_pipeline.sample_count = 4

C19_Witness ==
    /\ pair.single_frame.rpc = "returned" /\ pair.msaa_frame.rpc = "returned"
    /\ pair.single_frame.result = "Ok" /\ pair.msaa_frame.trace = FullCycle
    /\ pair.single_frame.pass.view = "view"
    /\ pair.msaa_frame.pass.view = "texture_view_for_multisampling"
====
